---- MODULE Spec2Model ----
(***************************************************************************)
(* Country / currency API: the reconcile-and-upsert pipeline of            *)
(* services.py and the request handlers of main.py.                        *)
(*                                                                         *)
(* Python's None is the empty tuple <<>>, a present value v is <<v>>.      *)
(* A JSON object is a function whose DOMAIN is the set of keys it has.     *)
(* Floats are integers here; the float division of the GDP formula is      *)
(* the integer division.                                                   *)
(***************************************************************************)
EXTENDS Integers, Sequences, FiniteSets, TLC

None == <<>>
Some(v) == <<v>>
Val(o) == o[1]

(***************************************************************************)
(* Bounds of the model.                                                    *)
(***************************************************************************)
\* length of the longest country list the country source returns
MaxSourceLen == 11
\* the clock runs from 0 to MaxTime
MaxTime == 1
\* rows of the largest table the list queries are run on
MaxRows == 3

(***************************************************************************)
(* Program constants.                                                      *)
(***************************************************************************)
\* main.py: countries_data[:50]
SliceLimit == 50
\* main.py: if len(batch) >= 10
BatchSize == 10
\* services.py: random.uniform(1000, 2000)
MinMultiplier == 1000
MaxMultiplier == 2000
\* main.py: get_top_countries_by_gdp(db, limit=5)
TopLimit == 5

\* the values random.uniform is drawn from here: both ends of [1000, 2000)
Multipliers == {MinMultiplier, MaxMultiplier - 1}

(***************************************************************************)
(* Strings.  func.lower / str.lower on the alphabet of the model.          *)
(***************************************************************************)
Names == {"a", "A", "b"}

Lower(s) ==
  CASE s = "A" -> "a"
    [] s = "R" -> "r"
    [] s = "X" -> "x"
    [] OTHER -> s

\* SQL lower() of a nullable value: NULL stays NULL
LowerOpt(o) == IF o = None THEN None ELSE Some(Lower(Val(o)))

\* SQL equality of two nullable values: NULL = anything is not true
SqlEq(x, y) == x # None /\ y # None /\ x = y

\* dict.get(key) and dict.get(key, default)
Get(d, k) == IF k \in DOMAIN d THEN d[k] ELSE None
GetDefault(d, k, default) == IF k \in DOMAIN d THEN d[k] ELSE default

(***************************************************************************)
(* Record Reconciler (services.py, pure functions).                        *)
(* A result is [raised |-> BOOLEAN, value |-> ...].                        *)
(***************************************************************************)
Return(v) == [raised |-> FALSE, value |-> v]
Raise == [raised |-> TRUE, value |-> None]

\* Python truthiness of an optional string: None and "" are falsy
Truthy(o) == o # None /\ Val(o) # ""

extract_currency_code(currencies) ==
  IF currencies = None \/ Len(currencies) = 0
  THEN None
  ELSE Get(currencies[1], "code")

calculate_estimated_gdp_ZeroPopulation(population, exchange_rate, multiplier) ==
  IF exchange_rate = None \/ Val(exchange_rate) = 0 \/ population = Some(0)
  THEN Return(None)
  ELSE IF population = None
       THEN Raise
       ELSE Return(Some((Val(population) * multiplier) \div Val(exchange_rate)))

\* multiplier stands for the draw of random.uniform(1000, 2000);
\* None * float raises TypeError
calculate_estimated_gdp(population, exchange_rate, multiplier) ==
  IF exchange_rate = None \/ Val(exchange_rate) = 0
  THEN Return(None)
  ELSE IF population = None
       THEN Raise
       ELSE Return(Some((Val(population) * multiplier) \div Val(exchange_rate)))

process_country_data(country, rates, multiplier) ==
  LET name == Get(country, "name")
      capital == Get(country, "capital")
      region == Get(country, "region")
      population == GetDefault(country, "population", Some(0))
      flag_url == Get(country, "flag")
      currencies == GetDefault(country, "currencies", <<>>)
      currency_code == extract_currency_code(currencies)
      exchange_rate == IF Truthy(currency_code)
                       THEN (IF Val(currency_code) \in DOMAIN rates
                             THEN Some(rates[Val(currency_code)])
                             ELSE None)
                       ELSE None
      gdp == calculate_estimated_gdp(population, exchange_rate, multiplier)
  IN IF gdp.raised
     THEN Raise
     ELSE Return([name |-> name,
                  capital |-> capital,
                  region |-> region,
                  population |-> population,
                  currency_code |-> currency_code,
                  exchange_rate |-> exchange_rate,
                  estimated_gdp |-> gdp.value,
                  flag_url |-> flag_url])

(***************************************************************************)
(* The countries table (models.py CountryDB) and the database operations   *)
(* of services.py.  The table is the sequence of its rows in id order.     *)
(***************************************************************************)
Min(S) == CHOOSE x \in S : \A y \in S : x <= y
Max(S) == CHOOSE x \in S : \A y \in S : x >= y

\* the rows a filter keeps, in table order
RECURSIVE Filter(_, _)
Filter(rows, keep) ==
  IF rows = <<>> THEN <<>>
  ELSE IF keep[1]
       THEN <<rows[1]>> \o Filter(Tail(rows), Tail(keep))
       ELSE Filter(Tail(rows), Tail(keep))

\* Query.first(): the first of the positions a query matches, 0 when it
\* matches none
First(hits) == IF hits = {} THEN 0 ELSE Min(hits)

\* CountryDB(**country_data) / setattr for every key of country_data
RowOf(data, id, ts) ==
  [id |-> id,
   name |-> Val(data.name),
   capital |-> data.capital,
   region |-> data.region,
   population |-> Val(data.population),
   currency_code |-> data.currency_code,
   exchange_rate |-> data.exchange_rate,
   estimated_gdp |-> data.estimated_gdp,
   flag_url |-> data.flag_url,
   last_refreshed_at |-> ts]

\* the columns of a row that come from country_data
DataOf(row) ==
  [name |-> Some(row.name),
   capital |-> row.capital,
   region |-> row.region,
   population |-> Some(row.population),
   currency_code |-> row.currency_code,
   exchange_rate |-> row.exchange_rate,
   estimated_gdp |-> row.estimated_gdp,
   flag_url |-> row.flag_url]

\* nullable=False on name and population
NotNullViolation(data) == data.name = None \/ data.population = None

\* unique=True on name: another row already holds this very name
UniqueViolation(rows, name, id) ==
  \E i \in 1..Len(rows) : rows[i].name = name /\ rows[i].id # id

upsert_lookup_CaseSensitive(rows, country_data) ==
  LET i == First({k \in 1..Len(rows) : SqlEq(Some(rows[k].name), country_data.name)})
  IN IF i = 0 THEN 0 ELSE rows[i].id

\* upsert_country, the query: the id of the existing row, 0 when none
upsert_lookup(rows, country_data) ==
  LET i == First({k \in 1..Len(rows) :
                    SqlEq(LowerOpt(Some(rows[k].name)), LowerOpt(country_data.name))})
  IN IF i = 0 THEN 0 ELSE rows[i].id

upsert_write_KeepsTimestamp(rows, nid, clock, existing, country_data) ==
  LET failed(kind) == [raised |-> TRUE, kind |-> kind, rows |-> rows, nextId |-> nid]
  IN IF existing # 0
     THEN LET at == {i \in 1..Len(rows) : rows[i].id = existing}
          IN IF NotNullViolation(country_data) THEN failed("not_null")
             ELSE IF at = {} THEN failed("stale")
             ELSE IF UniqueViolation(rows, Val(country_data.name), existing)
                  THEN failed("unique")
             ELSE [raised |-> FALSE, kind |-> "update",
                   rows |-> [rows EXCEPT ![Min(at)] =
                               RowOf(country_data, existing, @.last_refreshed_at)],
                   nextId |-> nid]
     ELSE IF NotNullViolation(country_data) THEN failed("not_null")
          ELSE IF UniqueViolation(rows, Val(country_data.name), 0)
               THEN failed("unique")
          ELSE [raised |-> FALSE, kind |-> "insert",
                rows |-> Append(rows, RowOf(country_data, nid, clock)),
                nextId |-> nid + 1]

\* upsert_country, the write and its commit.  existing is the id the query
\* found (0: none).  A failed commit rolls back: the table is unchanged.
upsert_write(rows, nid, clock, existing, country_data) ==
  LET failed(kind) == [raised |-> TRUE, kind |-> kind, rows |-> rows, nextId |-> nid]
  IN IF existing # 0
     THEN LET at == {i \in 1..Len(rows) : rows[i].id = existing}
          IN IF NotNullViolation(country_data) THEN failed("not_null")
             ELSE IF at = {} THEN failed("stale")
             ELSE IF UniqueViolation(rows, Val(country_data.name), existing)
                  THEN failed("unique")
             ELSE [raised |-> FALSE, kind |-> "update",
                   rows |-> [rows EXCEPT ![Min(at)] = RowOf(country_data, existing, clock)],
                   nextId |-> nid]
     ELSE IF NotNullViolation(country_data) THEN failed("not_null")
          ELSE IF UniqueViolation(rows, Val(country_data.name), 0)
               THEN failed("unique")
          ELSE [raised |-> FALSE, kind |-> "insert",
                rows |-> Append(rows, RowOf(country_data, nid, clock)),
                nextId |-> nid + 1]

get_country_by_name_CaseSensitive(rows, name) ==
  LET i == First({k \in 1..Len(rows) : rows[k].name = name})
  IN IF i = 0 THEN None ELSE Some(rows[i])

\* name is a path parameter: always a string
get_country_by_name(rows, name) ==
  LET i == First({k \in 1..Len(rows) : Lower(rows[k].name) = Lower(name)})
  IN IF i = 0 THEN None ELSE Some(rows[i])

delete_country_by_name_AlwaysTrue(rows, name) ==
  LET country == get_country_by_name(rows, name)
  IN IF country # None
     THEN [deleted |-> TRUE,
           rows |-> Filter(rows, [i \in 1..Len(rows) |-> rows[i].id # Val(country).id])]
     ELSE [deleted |-> TRUE, rows |-> rows]

delete_country_by_name(rows, name) ==
  LET country == get_country_by_name(rows, name)
  IN IF country # None
     THEN [deleted |-> TRUE,
           rows |-> Filter(rows, [i \in 1..Len(rows) |-> rows[i].id # Val(country).id])]
     ELSE [deleted |-> FALSE, rows |-> rows]

\* (count(id), max(last_refreshed_at)); max of no rows is NULL
get_database_status(rows) ==
  <<Len(rows),
    IF rows = <<>> THEN None
    ELSE Some(Max({rows[i].last_refreshed_at : i \in 1..Len(rows)}))>>

\* ORDER BY estimated_gdp DESC over the rows that have one; rows of equal
\* value keep their table order
RECURSIVE OrderByGdpDesc(_)
OrderByGdpDesc(rows) ==
  IF rows = <<>> THEN <<>>
  ELSE LET top == Max({Val(rows[i].estimated_gdp) : i \in 1..Len(rows)})
           at == Min({i \in 1..Len(rows) : Val(rows[i].estimated_gdp) = top})
       IN <<rows[at]>> \o
          OrderByGdpDesc(Filter(rows, [i \in 1..Len(rows) |-> i # at]))

get_top_countries_by_gdp(rows, limit) ==
  LET have == Filter(rows, [i \in 1..Len(rows) |-> rows[i].estimated_gdp # None])
      sorted == OrderByGdpDesc(have)
  IN SubSeq(sorted, 1, IF Len(sorted) < limit THEN Len(sorted) ELSE limit)

\* database.py builds the engine for MySQL (mysql+pymysql, with pymysql's
\* connect_args).  The NULLS FIRST / NULLS LAST that nullsfirst() and
\* nullslast() render is not in MySQL's grammar: the statement is refused.
NullsOrderingSupported == FALSE

\* the collation of the name column orders names without regard to case
Collate(s) ==
  CASE Lower(s) = "a" -> 1
    [] Lower(s) = "b" -> 2
    [] Lower(s) = "c" -> 3
    [] Lower(s) = "d" -> 4
    [] OTHER -> 5

\* ORDER BY over integer keys, keys[i] the key of rows[i]; rows of equal key
\* keep their table order
RECURSIVE OrderBy(_, _, _)
OrderBy(rows, keys, desc) ==
  IF rows = <<>> THEN <<>>
  ELSE LET all == {keys[i] : i \in 1..Len(keys)}
           best == IF desc THEN Max(all) ELSE Min(all)
           at == Min({i \in 1..Len(rows) : keys[i] = best})
           rest == [i \in 1..Len(rows) |-> i # at]
       IN <<rows[at]>> \o OrderBy(Filter(rows, rest), Filter(keys, rest), desc)

\* ORDER BY estimated_gdp with the NULL rows first or last
OrderByGdpNulls(rows, desc, nulls_first) ==
  LET have == Filter(rows, [i \in 1..Len(rows) |-> rows[i].estimated_gdp # None])
      nulls == Filter(rows, [i \in 1..Len(rows) |-> rows[i].estimated_gdp = None])
      sorted == OrderBy(have, [i \in 1..Len(have) |-> Val(have[i].estimated_gdp)], desc)
  IN IF nulls_first THEN nulls \o sorted ELSE sorted \o nulls

\* region, currency and sort are optional query parameters; "if region:"
\* and its like skip None and the empty string
get_all_countries(rows, region, currency, sort) ==
  LET by_region ==
        IF Truthy(region)
        THEN Filter(rows, [i \in 1..Len(rows) |->
                             SqlEq(LowerOpt(rows[i].region), LowerOpt(region))])
        ELSE rows
      query ==
        IF Truthy(currency)
        THEN Filter(by_region, [i \in 1..Len(by_region) |->
                                  SqlEq(LowerOpt(by_region[i].currency_code),
                                        LowerOpt(currency))])
        ELSE by_region
      population == [i \in 1..Len(query) |-> query[i].population]
      name == [i \in 1..Len(query) |-> Collate(query[i].name)]
  IN IF ~Truthy(sort) THEN Return(query)
     ELSE CASE Val(sort) = "gdp_desc" ->
                 IF NullsOrderingSupported
                 THEN Return(OrderByGdpNulls(query, TRUE, FALSE)) ELSE Raise
            [] Val(sort) = "gdp_asc" ->
                 IF NullsOrderingSupported
                 THEN Return(OrderByGdpNulls(query, FALSE, TRUE)) ELSE Raise
            [] Val(sort) = "population_desc" -> Return(OrderBy(query, population, TRUE))
            [] Val(sort) = "population_asc" -> Return(OrderBy(query, population, FALSE))
            [] Val(sort) = "name_asc" -> Return(OrderBy(query, name, FALSE))
            [] Val(sort) = "name_desc" -> Return(OrderBy(query, name, TRUE))
            [] OTHER -> Return(query)

(***************************************************************************)
(* The two external sources: what a fetch may return.                      *)
(***************************************************************************)
Valid(n) ==
  [name |-> Some(n), capital |-> Some("k"), region |-> Some("r"),
   population |-> Some(2), flag |-> Some("f"),
   currencies |-> <<[code |-> Some("X")]>>]

\* {"name": n, "population": 1, "currencies": []}
NoCurrency(n) == [name |-> Some(n), population |-> Some(1), currencies |-> <<>>]

\* no "name" key
NoName == [population |-> Some(1), currencies |-> <<>>]

\* "population": null
NullPopulation(n) ==
  [name |-> Some(n), population |-> None, currencies |-> <<[code |-> Some("X")]>>]

\* list padded with records without a currency up to length n
Pad(list, n) ==
  [i \in 1..(IF n > Len(list) THEN n ELSE Len(list)) |->
     IF i <= Len(list) THEN list[i] ELSE NoCurrency("b")]

TwoValid == <<Valid("a"), NoCurrency("b")>>
MissingName == <<NoCurrency("A"), NoName, NoCurrency("b")>>
BadPopulation == <<NullPopulation("b"), NoCurrency("a")>>
OnlyB == <<NoCurrency("b")>>

SourceLists ==
  {<<>>, TwoValid, MissingName, BadPopulation, OnlyB,
   Pad(TwoValid, MaxSourceLen), Pad(MissingName, MaxSourceLen)}

\* the "rates" object of the rate source
RateMaps == {("X" :> 2), <<>>}

(***************************************************************************)
(* State.                                                                  *)
(***************************************************************************)
Tasks == {1, 2}
LowerNames == {Lower(n) : n \in Names}

VARIABLES
  store,      \* the rows of the countries table, in id order
  nextId,     \* the table's AUTO_INCREMENT counter
  now,        \* the clock datetime.utcnow() and the database's now() read
  task,       \* task[t]: one POST /countries/refresh request, its locals
  image,      \* cache/summary.png: None or what it was drawn from
  resp,       \* the response this step sent to its request, if it sent one
  upsertLog,  \* history: upsertLog[t] lists the upsert_country calls of t
  live        \* history: per lower-cased name, the data last upserted and
              \* not deleted since

vars == <<store, nextId, now, task, image, resp, upsertLog, live>>

\* task is the refresh request a response answers, 0 for the other
\* handlers; fetch_failed and image_failed are history: which except clause
\* ran in the request
NoResp ==
  [op |-> "none", task |-> 0, name |-> "", status |-> "", body |-> None,
   fetch_failed |-> FALSE, image_failed |-> FALSE]

\* origin and fetch_failed are history: the position in countries_data of
\* each record of batch, and whether a fetch of the request has failed.  A
\* request that has been answered keeps none of its locals.
IdleTask ==
  [pc |-> "idle", countries_data |-> <<>>, exchange_rates |-> <<>>,
   idx |-> 0, batch |-> <<>>, j |-> 0, existing |-> 0,
   countries_processed |-> 0, origin |-> <<>>, fetch_failed |-> FALSE]

DoneTask == [IdleTask EXCEPT !.pc = "done"]

Init ==
  /\ store = <<>>
  /\ nextId = 1
  /\ now = 0
  /\ task = [t \in Tasks |-> IdleTask]
  /\ image = None
  /\ resp = NoResp
  /\ upsertLog = [t \in Tasks |-> <<>>]
  /\ live = [n \in LowerNames |-> None]

AtAwait_Threads(t) == TRUE

\* refresh_countries awaits only its two fetches: everywhere else the
\* handler holds the event loop
AtAwait(t) == task[t].pc \in {"idle", "fetch_countries", "fetch_rates", "done"}

\* t may take a step: no other handler is in the middle of its code
MayRun(t) == \A u \in Tasks \ {t} : AtAwait(u)
LoopIdle == \A u \in Tasks : AtAwait(u)

\* countries_data[:50]
Slice(t) ==
  SubSeq(task[t].countries_data, 1,
         IF Len(task[t].countries_data) < SliceLimit
         THEN Len(task[t].countries_data) ELSE SliceLimit)

HTTPException(code, details) ==
  Some([status |-> code, details |-> details, countries_processed |-> None,
        timestamp |-> None])
\* RefreshResponse(message, countries_processed, timestamp=datetime.utcnow())
RefreshResponse(n, clock) ==
  Some([status |-> "200", details |-> "Countries data refreshed successfully",
        countries_processed |-> Some(n), timestamp |-> Some(clock)])

\* the response r leaves refresh_countries for the request t
Answer(t, r, fetch_failed, image_failed) ==
  [op |-> "refresh", task |-> t, name |-> "", status |-> Val(r).status,
   body |-> r, fetch_failed |-> fetch_failed, image_failed |-> image_failed]

(***************************************************************************)
(* POST /countries/refresh (main.py refresh_countries), one action per     *)
(* stretch of code between two points where the handler can be left.       *)
(***************************************************************************)
\* The request arrives and the handler runs to its first await.  The
\* requests of a behaviour arrive in the order of their numbers, and before
\* any of them is answered: one that arrives later behaves as one that
\* arrived earlier and waited longer for its first fetch.
StartRefresh(t) ==
  /\ LoopIdle
  /\ task[t].pc = "idle"
  /\ \A u \in Tasks : (u < t => task[u].pc # "idle") /\ task[u].pc # "done"
  /\ task' = [task EXCEPT ![t].pc = "fetch_countries"]
  /\ resp' = NoResp
  /\ UNCHANGED <<store, nextId, now, image, upsertLog, live>>

\* await fetch_countries_data() returns response.json()
FetchCountriesOk(t) ==
  /\ LoopIdle
  /\ task[t].pc = "fetch_countries"
  /\ \E list \in SourceLists :
       task' = [task EXCEPT ![t].pc = "fetch_rates", ![t].countries_data = list]
  /\ resp' = NoResp
  /\ UNCHANGED <<store, nextId, now, image, upsertLog, live>>

\* await fetch_exchange_rates() returns data.get("rates", {}); the code
\* after it runs to the first country of the loop
FetchRatesOk(t) ==
  /\ LoopIdle
  /\ task[t].pc = "fetch_rates"
  /\ \E rates \in RateMaps :
       task' = [task EXCEPT ![t].pc = "loop", ![t].exchange_rates = rates,
                            ![t].idx = 1, ![t].batch = <<>>, ![t].origin = <<>>,
                            ![t].countries_processed = 0]
  /\ resp' = NoResp
  /\ UNCHANGED <<store, nextId, now, image, upsertLog, live>>

FetchFail_Swallowed(t) ==
  /\ LoopIdle
  /\ task[t].pc \in {"fetch_countries", "fetch_rates"}
  /\ task' = [task EXCEPT ![t].pc = "loop", ![t].fetch_failed = TRUE,
                          ![t].idx = 1, ![t].batch = <<>>, ![t].origin = <<>>,
                          ![t].countries_processed = 0]
  /\ resp' = NoResp
  /\ UNCHANGED <<store, nextId, now, image, upsertLog, live>>

\* either fetch raises HTTPException(503): timeout, network error, bad status
FetchFail(t) ==
  /\ LoopIdle
  /\ task[t].pc \in {"fetch_countries", "fetch_rates"}
  /\ task' = [task EXCEPT ![t] = DoneTask]
  /\ resp' = Answer(t, HTTPException("503", "Could not fetch data"), TRUE, FALSE)
  /\ UNCHANGED <<store, nextId, now, image, upsertLog, live>>

\* asyncio.timeout(25) expires during either fetch: HTTPException(503)
FetchTimeout(t) ==
  /\ LoopIdle
  /\ task[t].pc \in {"fetch_countries", "fetch_rates"}
  /\ task' = [task EXCEPT ![t] = DoneTask]
  /\ resp' = Answer(t, HTTPException("503", "External API took too long to respond"),
                  TRUE, FALSE)
  /\ UNCHANGED <<store, nextId, now, image, upsertLog, live>>

\* one pass of "for country in countries_data[:50]" up to the flush
LoopBody(t) ==
  /\ MayRun(t)
  /\ task[t].pc = "loop"
  /\ task[t].idx <= Len(Slice(t))
  /\ \E multiplier \in Multipliers :
       LET processed_data == process_country_data(Slice(t)[task[t].idx],
                                                  task[t].exchange_rates, multiplier)
           batch == Append(task[t].batch, processed_data.value)
       IN IF processed_data.raised
          THEN \* except Exception: continue
               task' = [task EXCEPT ![t].idx = @ + 1]
          ELSE IF Len(batch) >= BatchSize
               THEN task' = [task EXCEPT ![t].batch = batch, ![t].j = 1,
                                         ![t].origin = Append(@, task[t].idx),
                                         ![t].pc = "upsert_query"]
               ELSE task' = [task EXCEPT ![t].batch = batch,
                                         ![t].origin = Append(@, task[t].idx),
                                         ![t].idx = @ + 1]
  /\ resp' = NoResp
  /\ UNCHANGED <<store, nextId, now, image, upsertLog, live>>

\* the loop is over: "if batch:" flushes what remains
LoopEnd(t) ==
  /\ MayRun(t)
  /\ task[t].pc = "loop"
  /\ task[t].idx > Len(Slice(t))
  /\ IF task[t].batch # <<>>
     THEN task' = [task EXCEPT ![t].j = 1, ![t].pc = "upsert_query"]
     ELSE task' = [task EXCEPT ![t].pc = "image"]
  /\ resp' = NoResp
  /\ UNCHANGED <<store, nextId, now, image, upsertLog, live>>

\* the flush runs inside the loop's try (True) or after the loop (False)
InLoop(t) == task[t].idx <= Len(Slice(t))

\* upsert_country(db, data): the query for the existing row
UpsertQuery(t) ==
  /\ MayRun(t)
  /\ task[t].pc = "upsert_query"
  /\ task' = [task EXCEPT ![t].pc = "upsert_commit",
                          ![t].existing = upsert_lookup(store, task[t].batch[task[t].j])]
  /\ resp' = NoResp
  /\ UNCHANGED <<store, nextId, now, image, upsertLog, live>>

LogEntry(t, kind) ==
  [index |-> task[t].origin[task[t].j], name |-> task[t].batch[task[t].j].name,
   kind |-> kind]

FlushedCount_PerFlush(countries_processed, batch) == countries_processed + 1

\* countries_processed += len(batch)
FlushedCount(countries_processed, batch) == countries_processed + Len(batch)

UpsertCommit_Prunes(t) ==
  /\ MayRun(t)
  /\ task[t].pc = "upsert_commit"
  /\ LET data == task[t].batch[task[t].j]
         w == upsert_write(store, nextId, now, task[t].existing, data)
         fetched == {Lower(Val(task[t].countries_data[i].name)) :
                       i \in {i \in 1..Len(task[t].countries_data) :
                                "name" \in DOMAIN task[t].countries_data[i]}}
     IN /\ ~w.raised
        /\ store' = Filter(w.rows, [i \in 1..Len(w.rows) |->
                                      Lower(w.rows[i].name) \in fetched])
        /\ nextId' = w.nextId
        /\ upsertLog' = [upsertLog EXCEPT ![t] = Append(@, LogEntry(t, w.kind))]
        /\ live' = [live EXCEPT ![Lower(Val(data.name))] = Some(data)]
        /\ IF task[t].j < Len(task[t].batch)
           THEN task' = [task EXCEPT ![t].j = @ + 1, ![t].pc = "upsert_query"]
           ELSE IF InLoop(t)
                THEN task' = [task EXCEPT
                       ![t].countries_processed = FlushedCount(@, task[t].batch),
                       ![t].batch = <<>>, ![t].origin = <<>>,
                       ![t].idx = @ + 1, ![t].pc = "loop"]
                ELSE task' = [task EXCEPT
                       ![t].countries_processed = FlushedCount(@, task[t].batch),
                       ![t].pc = "image"]
  /\ resp' = NoResp
  /\ UNCHANGED <<now, image>>

\* upsert_country(db, data): the write commits; after the last record of
\* the batch the flush ends: countries_processed += len(batch); batch = []
UpsertCommit(t) ==
  /\ MayRun(t)
  /\ task[t].pc = "upsert_commit"
  /\ LET data == task[t].batch[task[t].j]
         w == upsert_write(store, nextId, now, task[t].existing, data)
     IN /\ ~w.raised
        /\ store' = w.rows
        /\ nextId' = w.nextId
        /\ upsertLog' = [upsertLog EXCEPT ![t] = Append(@, LogEntry(t, w.kind))]
        /\ live' = [live EXCEPT ![Lower(Val(data.name))] = Some(data)]
        /\ IF task[t].j < Len(task[t].batch)
           THEN task' = [task EXCEPT ![t].j = @ + 1, ![t].pc = "upsert_query"]
           ELSE IF InLoop(t)
                THEN task' = [task EXCEPT
                       ![t].countries_processed = FlushedCount(@, task[t].batch),
                       ![t].batch = <<>>, ![t].origin = <<>>,
                       ![t].idx = @ + 1, ![t].pc = "loop"]
                ELSE task' = [task EXCEPT
                       ![t].countries_processed = FlushedCount(@, task[t].batch),
                       ![t].pc = "image"]
  /\ resp' = NoResp
  /\ UNCHANGED <<now, image>>

\* upsert_country raises.  Inside the loop "except Exception: continue"
\* catches it; after the loop it reaches the handler's last except:
\* HTTPException(500)
UpsertRaise(t) ==
  /\ MayRun(t)
  /\ task[t].pc = "upsert_commit"
  /\ LET w == upsert_write(store, nextId, now, task[t].existing,
                           task[t].batch[task[t].j])
     IN /\ w.raised
        /\ upsertLog' = [upsertLog EXCEPT ![t] = Append(@, LogEntry(t, w.kind))]
  /\ IF InLoop(t)
     THEN /\ task' = [task EXCEPT ![t].idx = @ + 1, ![t].pc = "loop"]
          /\ resp' = NoResp
     ELSE /\ task' = [task EXCEPT ![t] = DoneTask]
          /\ resp' = Answer(t, HTTPException("500", "Internal server error"),
                           task[t].fetch_failed, FALSE)
  /\ UNCHANGED <<store, nextId, now, image, live>>

\* what generate_summary_image draws
ImageOf(rows, clock) ==
  LET status == get_database_status(rows)
      top_countries == get_top_countries_by_gdp(rows, TopLimit)
  IN [total |-> status[1], top |-> top_countries,
      timestamp |-> IF status[2] # None THEN status[2] ELSE Some(clock)]

\* status, top five, summary image, then the RefreshResponse
RefreshDone(t) ==
  /\ MayRun(t)
  /\ task[t].pc = "image"
  /\ image' = IF get_top_countries_by_gdp(store, TopLimit) # <<>>
              THEN Some(ImageOf(store, now)) ELSE image
  /\ task' = [task EXCEPT ![t] = DoneTask]
  /\ resp' = Answer(t, RefreshResponse(task[t].countries_processed, now),
                  task[t].fetch_failed, FALSE)
  /\ UNCHANGED <<store, nextId, now, upsertLog, live>>

RefreshDoneImageFailed_Propagates(t) ==
  /\ MayRun(t)
  /\ task[t].pc = "image"
  /\ task' = [task EXCEPT ![t] = DoneTask]
  /\ resp' = Answer(t, HTTPException("500", "Internal server error"),
                  task[t].fetch_failed, TRUE)
  /\ UNCHANGED <<store, nextId, now, image, upsertLog, live>>

\* the status queries or the image generation raise: "except Exception"
\* prints and the handler goes on to the RefreshResponse
RefreshDoneImageFailed(t) ==
  /\ MayRun(t)
  /\ task[t].pc = "image"
  /\ task' = [task EXCEPT ![t] = DoneTask]
  /\ resp' = Answer(t, RefreshResponse(task[t].countries_processed, now),
                  task[t].fetch_failed, TRUE)
  /\ UNCHANGED <<store, nextId, now, image, upsertLog, live>>

(***************************************************************************)
(* The other handlers of main.py: no await in them, each is one step.      *)
(***************************************************************************)
\* GET /countries/{name}
GetCountry(name) ==
  /\ LoopIdle
  /\ LET country == get_country_by_name(store, name)
     IN resp' = IF country = None
                THEN [NoResp EXCEPT !.op = "get", !.name = name, !.status = "404"]
                ELSE [NoResp EXCEPT !.op = "get", !.name = name, !.status = "200",
                                    !.body = country]
  /\ UNCHANGED <<store, nextId, now, task, image, upsertLog, live>>

\* DELETE /countries/{name}
DeleteCountry(name) ==
  /\ LoopIdle
  /\ LET d == delete_country_by_name(store, name)
     IN /\ store' = d.rows
        /\ resp' = [NoResp EXCEPT !.op = "delete", !.name = name,
                                   !.status = IF d.deleted THEN "204" ELSE "404"]
        /\ live' = IF d.deleted THEN [live EXCEPT ![Lower(name)] = None] ELSE live
  /\ UNCHANGED <<nextId, now, task, image, upsertLog>>

\* GET /status
GetStatus ==
  /\ LoopIdle
  /\ resp' = [NoResp EXCEPT !.op = "status", !.status = "200",
                             !.body = Some(get_database_status(store))]
  /\ UNCHANGED <<store, nextId, now, task, image, upsertLog, live>>

\* GET /countries
GetCountries(region, currency, sort) ==
  /\ LoopIdle
  /\ LET countries == get_all_countries(store, region, currency, sort)
         query == [region |-> region, currency |-> currency, sort |-> sort]
     IN resp' = IF countries.raised
                THEN [NoResp EXCEPT !.op = "list", !.status = "500",
                                    !.body = Some([query |-> query, countries |-> <<>>])]
                ELSE [NoResp EXCEPT !.op = "list", !.status = "200",
                                    !.body = Some([query |-> query,
                                                   countries |-> countries.value])]
  /\ UNCHANGED <<store, nextId, now, task, image, upsertLog, live>>

\* a step reads the clock: the next write of an upsert, or the timestamp
\* of the RefreshResponse
ReadsClock(t) == task[t].pc \in {"upsert_commit", "image"}

\* Time passes.  The clock is shown advancing only in front of a step
\* that reads it: an advance anywhere earlier gives that step the same
\* reading.
Tick ==
  /\ \E t \in Tasks : ReadsClock(t)
  /\ now < MaxTime
  /\ now' = now + 1
  /\ resp' = NoResp
  /\ UNCHANGED <<store, nextId, task, image, upsertLog, live>>

Next ==
  \/ \E t \in Tasks :
       \/ StartRefresh(t)
       \/ FetchCountriesOk(t)
       \/ FetchRatesOk(t)
       \/ FetchFail(t)
       \/ FetchTimeout(t)
       \/ LoopBody(t)
       \/ LoopEnd(t)
       \/ UpsertQuery(t)
       \/ UpsertCommit(t)
       \/ UpsertRaise(t)
       \/ RefreshDone(t)
       \/ RefreshDoneImageFailed(t)
  \/ \E name \in Names : GetCountry(name) \/ DeleteCountry(name)
  \/ \E sort \in {None, Some("gdp_desc")} : GetCountries(None, None, sort)
  \/ GetStatus
  \/ Tick

Spec == Init /\ [][Next]_vars

(***************************************************************************)
(* Properties.                                                             *)
(***************************************************************************)
\* resp answers the refresh request t
Answers(t) == resp.op = "refresh" /\ resp.task = t
Succeeded(kind) == kind \in {"insert", "update"}

\* positions in countries_data of the records t has upserted
Upserted(t) ==
  {upsertLog[t][k].index : k \in {k \in 1..Len(upsertLog[t]) :
                                    Succeeded(upsertLog[t][k].kind)}}

\* lower-cased names t has upserted
UpsertedNames(t) ==
  {Lower(Val(upsertLog[t][k].name)) : k \in {k \in 1..Len(upsertLog[t]) :
                                               Succeeded(upsertLog[t][k].kind)}}

RowsNamed(n) == {i \in 1..Len(store) : Lower(store[i].name) = n}

\* C1: the store holds at most one record per case-folded name, whatever
\* upserts and deletes have run: an upsert of a name that matches an
\* existing record case-insensitively updates it and adds no record.
C1_UniqueFoldedName ==
  \A i, k \in 1..Len(store) :
    i # k => Lower(store[i].name) # Lower(store[k].name)

\* "a" was inserted, "A" was then upserted as an update, one record holds it
C1_Witness ==
  /\ \E t \in Tasks : \E k \in 1..Len(upsertLog[t]) :
       upsertLog[t][k].kind = "insert" /\ upsertLog[t][k].name = Some("a")
  /\ \E t \in Tasks : \E k \in 1..Len(upsertLog[t]) :
       upsertLog[t][k].kind = "update" /\ upsertLog[t][k].name = Some("A")
  /\ \E i \in 1..Len(store) : store[i].name = "A"

\* C2: two refresh requests in flight at once that upsert the same
\* case-folded name both complete their upserts (neither fails on the
\* other's row), the store ends with exactly one record for the name, and
\* it is the record of the upsert that committed last; the records of the
\* other names stay as their own last upsert left them.
C2_ConcurrentUpsertsSerialize ==
  /\ \A t \in Tasks : \A k \in 1..Len(upsertLog[t]) :
       upsertLog[t][k].kind \notin {"unique", "stale"}
  /\ \A n \in LowerNames :
       /\ Cardinality(RowsNamed(n)) <= 1
       /\ live[n] # None =>
            \E i \in RowsNamed(n) : Some(DataOf(store[i])) = live[n]

\* both requests were in flight together (a request arrives before any is
\* answered), both are answered, and both upserted the same folded name
C2_Witness ==
  /\ \A t \in Tasks : task[t].pc = "done"
  /\ \E n \in LowerNames :
       /\ \A t \in Tasks : n \in UpsertedNames(t)
       /\ Cardinality(RowsNamed(n)) = 1

\* C3: a refresh whose fetch of the countries or of the rates fails or
\* times out ends with the 503 condition and has upserted nothing: no
\* request goes on after a failed fetch, the request made no upsert_country
\* call, and the failing step leaves the store as it was.
C3_FetchFailureNoUpsert ==
  /\ [](\A t \in Tasks :
          /\ ~task[t].fetch_failed
          /\ (Answers(t) /\ resp.fetch_failed) =>
               resp.status = "503" /\ upsertLog[t] = <<>>)
  /\ [][(resp'.op = "refresh" /\ resp'.fetch_failed) => store' = store]_vars

\* a fetch of the second request failed while the store held the records
\* the first had upserted
C3_Witness ==
  /\ Answers(2) /\ resp.fetch_failed /\ resp.status = "503"
  /\ upsertLog[1] # <<>> /\ store # <<>>

\* the record at position i of the slice can be stored: it reconciles, and
\* it has a name and a population
Storable(t, i) ==
  LET p == process_country_data(Slice(t)[i], task[t].exchange_rates, MinMultiplier)
  IN ~p.raised /\ ~NotNullViolation(p.value)

\* C4: a refresh whose fetches succeeded returns its success result, and
\* every record of the source that can be stored has been upserted, whatever
\* records failed in reconciliation or in their upsert.
C4_RecordFailureSkipped ==
  [][\A t \in Tasks :
       (Answers(t)' /\ ~resp'.fetch_failed) =>
         /\ resp'.status = "200"
         /\ \A i \in 1..Len(Slice(t)) : Storable(t, i) => i \in Upserted(t)']_vars

\* C5: the countries_processed of a successful refresh is the number of
\* source records it reconciled and upserted, each counted once; for the
\* source of two valid records it is 2.
C5_ProcessedCount ==
  [][\A t \in Tasks :
       (Answers(t)' /\ resp'.status = "200") =>
         /\ Val(resp'.body).countries_processed = Some(Cardinality(Upserted(t)'))
         /\ task[t].countries_data = TwoValid =>
              Val(resp'.body).countries_processed = Some(2)]_vars

\* a refresh that upserted the two records of its source, and nothing
\* else, answered 2
C5_Witness ==
  \E t \in Tasks :
    /\ Answers(t) /\ resp.status = "200"
    /\ Len(upsertLog[t]) = 2 /\ Upserted(t) = {1, 2}
    /\ Val(resp.body).countries_processed = Some(2)

\* C6: a DELETE of a name that matches no stored record, whatever its
\* case, answers not-found and leaves the store as it was.
C6_DeleteMissing ==
  [][\A n \in Names :
       (resp'.op = "delete" /\ resp'.name = n /\ RowsNamed(Lower(n)) = {}) =>
          (resp'.status = "404" /\ store' = store)]_vars

\* a delete answered not-found while the store held another record
C6_Witness == resp.op = "delete" /\ resp.status = "404" /\ store # <<>>

\* C7: get_country_by_name(n) returns the record last upserted under any
\* case variant of n when that record has not been deleted since, and
\* not-found otherwise (never upserted, or deleted and not upserted again);
\* GET /countries/{name} answers accordingly.
C7_GetAfterUpsertAndDelete ==
  /\ \A n \in Names :
       LET country == get_country_by_name(store, n)
       IN IF live[Lower(n)] # None
          THEN country # None /\ Some(DataOf(Val(country))) = live[Lower(n)]
          ELSE country = None
  /\ resp.op = "get" =>
       IF live[Lower(resp.name)] # None
       THEN resp.status = "200" /\ Some(DataOf(Val(resp.body))) = live[Lower(resp.name)]
       ELSE resp.status = "404"

\* a GET by a case variant of the stored name returned the record, after a
\* record had been deleted and upserted again
C7_Witness ==
  /\ resp.op = "get" /\ resp.status = "200"
  /\ Val(resp.body).name # resp.name
  /\ Val(resp.body).id > Len(store)

\* C9: a caller of refresh, get, delete or status sees no failure other
\* than 503 (source unavailable) and 404 (not found).
C9_OnlySourceUnavailableAndNotFound ==
  resp.op \in {"refresh", "get", "delete", "status"} =>
    resp.status \in {"200", "204", "404", "503"}

\* C10: when the status queries or the image generation fail at the end of
\* a refresh, the refresh returns its success result with the processed
\* count and the step changes no stored record.
C10_ArtifactFailureSwallowed ==
  [][\A t \in Tasks :
       (Answers(t)' /\ resp'.image_failed) =>
         /\ resp'.body = RefreshResponse(task[t].countries_processed, now)
         /\ store' = store]_vars

\* the image generation failed in a refresh that had upserted two records,
\* which are stored
C10_Witness ==
  \E t \in Tasks :
    /\ Answers(t) /\ resp.image_failed
    /\ Val(resp.body).countries_processed = Some(2)
    /\ \A n \in UpsertedNames(t) : RowsNamed(n) # {}
    /\ UpsertedNames(t) # {}

\* the step is the commit of an update by t
Updates(t) ==
  /\ Len(upsertLog'[t]) = Len(upsertLog[t]) + 1
  /\ upsertLog'[t][Len(upsertLog'[t])].kind = "update"

\* the position in rows of the row with this id
PositionOf(rows, id) == CHOOSE i \in 1..Len(rows) : rows[i].id = id

\* the columns other than id, name and last_refreshed_at
OtherFields(data) ==
  [capital |-> data.capital, region |-> data.region,
   population |-> data.population, currency_code |-> data.currency_code,
   exchange_rate |-> data.exchange_rate, estimated_gdp |-> data.estimated_gdp,
   flag_url |-> data.flag_url]

\* C13 as stated: an upsert that finds a record of the same case-folded
\* name leaves the record's name and id as they were, gives every other
\* field the new value and sets last_refreshed_at to the time of the write.
C13_AsStated ==
  [][\A t \in Tasks :
       Updates(t) =>
         LET data == task[t].batch[task[t].j]
             at == PositionOf(store, task[t].existing)
         IN /\ store'[at].id = store[at].id
            /\ store'[at].name = store[at].name
            /\ OtherFields(DataOf(store'[at])) = OtherFields(data)
            /\ store'[at].last_refreshed_at = now]_vars

\* C13, amended: an upsert that finds a record of the same case-folded name
\* and commits leaves the record's id as it was, gives every other field
\* the new value, the name included, which takes the spelling of the new
\* data (its case-folded value stays), and sets last_refreshed_at to the
\* time of the write.
C13_UpdateOverwritesAllButId ==
  [][\A t \in Tasks :
       Updates(t) =>
         LET data == task[t].batch[task[t].j]
             at == PositionOf(store, task[t].existing)
         IN /\ Len(store') = Len(store)
            /\ store'[at].id = store[at].id
            /\ store'[at].name = Val(data.name)
            /\ Lower(store'[at].name) = Lower(store[at].name)
            /\ OtherFields(DataOf(store'[at])) = OtherFields(data)
            /\ store'[at].last_refreshed_at = now]_vars

\* the record stored as "a" at time 0 has been updated at a later time by
\* an upsert of "A" that gave it an estimated_gdp: it is named "A" now
C13_Witness ==
  \E t \in Tasks : \E i \in 1..Len(store) :
    /\ upsertLog[t] # <<>>
    /\ upsertLog[t][Len(upsertLog[t])] \in
         {[index |-> k, name |-> Some("A"), kind |-> "update"] : k \in 1..MaxSourceLen}
    /\ store[i].name = "A"
    /\ now > 0 /\ store[i].last_refreshed_at = now

\* the case-folded names of the list the request t fetched
FetchedNames(t) ==
  {Lower(Val(task[t].countries_data[i].name)) :
     i \in {i \in 1..Len(task[t].countries_data) :
              /\ "name" \in DOMAIN task[t].countries_data[i]
              /\ task[t].countries_data[i].name # None}}

\* C14: stored records change only through refresh and delete-by-name.  A
\* step that answers a get, a list or a status request, and the step of a
\* refresh that runs the status and top-by-GDP queries, leave the store as
\* it was; a step of a refresh removes no record (every id stays) and
\* leaves as it was every record whose case-folded name is not among the
\* names of the list the refresh fetched.
C14_StoreChangesOnlyByRefreshAndDelete ==
  [][/\ resp'.op \in {"get", "list", "status"} => store' = store
     /\ \A t \in Tasks :
          task'[t] # task[t] =>
            /\ task[t].pc = "image" => store' = store
            /\ \A i \in 1..Len(store) :
                 /\ \E k \in 1..Len(store') : store'[k].id = store[i].id
                 /\ Lower(store[i].name) \notin FetchedNames(t) =>
                      \E k \in 1..Len(store') : store'[k] = store[i]]_vars

\* a refresh whose source holds only "b" has upserted it at a later time
\* than the one at which the record "a", which it does not name, was
\* written and which is still stored; a list request has then been answered
C14_Witness ==
  /\ resp.op = "list"
  /\ \E t \in Tasks : \E i, k \in 1..Len(store) :
       /\ task[t].pc = "done"
       /\ upsertLog[t] = <<[index |-> 1, name |-> Some("b"), kind |-> "update"]>>
       /\ Lower(store[i].name) = "a" /\ store[i].last_refreshed_at = 0
       /\ store[k].name = "b" /\ store[k].last_refreshed_at > 0

(***************************************************************************)
(* The reconciler on its own: one raw record and one rate mapping drawn    *)
(* from the sets below, reconciled by the first pass of the refresh loop.  *)
(***************************************************************************)
RawPopulations == {<<>>, <<"null">>, <<"value", 0>>, <<"value", 3>>}

RawCurrencies ==
  {<<>>, <<"list", <<>>>>,
   <<"list", <<[name |-> Some("no code")]>>>>,
   <<"list", <<[code |-> None]>>>>,
   <<"list", <<[code |-> Some("")]>>>>,
   <<"list", <<[code |-> Some("X")]>>>>,
   <<"list", <<[code |-> Some("Z")]>>>>,
   <<"list", <<[code |-> Some("X")], [code |-> Some("Z")]>>>>,
   <<"list", <<[code |-> Some("Z")], [code |-> Some("X")]>>>>}

\* the JSON object with the keys the choices give it
RawCountry(population, currencies) ==
  LET base == [name |-> Some("a")]
      withPopulation ==
        IF population = <<>> THEN base
        ELSE IF population[1] = "null" THEN base @@ [population |-> None]
        ELSE base @@ [population |-> Some(population[2])]
  IN IF currencies = <<>> THEN withPopulation
     ELSE withPopulation @@ [currencies |-> currencies[2]]

RawCountries ==
  {RawCountry(p, c) : p \in RawPopulations, c \in RawCurrencies}

AllRateMaps ==
  {<<>>, ("X" :> 2), ("X" :> 0), ("X" :> 2 @@ "Z" :> 0), ("" :> 1 @@ "X" :> 2)}

InitReconcile ==
  /\ store = <<>>
  /\ nextId = 1
  /\ now = 0
  /\ \E country \in RawCountries, rates \in AllRateMaps :
       task = [t \in Tasks |->
                 IF t = 1
                 THEN [IdleTask EXCEPT !.pc = "loop", !.countries_data = <<country>>,
                                       !.exchange_rates = rates, !.idx = 1]
                 ELSE IdleTask]
  /\ image = None
  /\ resp = NoResp
  /\ upsertLog = [t \in Tasks |-> <<>>]
  /\ live = [n \in LowerNames |-> None]

NextReconcile == LoopBody(1)

SpecReconcile == InitReconcile /\ [][NextReconcile]_vars

\* the code of the first currency of a raw record, None when it has none
FirstCode(country) ==
  IF "currencies" \in DOMAIN country /\ Len(country.currencies) > 0
     /\ "code" \in DOMAIN country.currencies[1]
  THEN country.currencies[1].code
  ELSE None

GdpAbsentIffNoRate(r) ==
  (r.estimated_gdp = None) <=>
     (r.exchange_rate = None \/ Val(r.exchange_rate) = 0)

\* C8 as stated: every reconciled record has estimated_gdp absent iff its
\* exchange_rate is absent or zero, and exchange_rate absent iff the first
\* currency's code is absent or not a key of the rate mapping.
C8_AsStated ==
  \A k \in 1..Len(task[1].batch) :
    LET r == task[1].batch[k]
        code == FirstCode(task[1].countries_data[task[1].origin[k]])
    IN /\ GdpAbsentIffNoRate(r)
       /\ (r.exchange_rate = None) <=>
            (code = None \/ Val(code) \notin DOMAIN task[1].exchange_rates)

\* C8, amended: every reconciled record has estimated_gdp absent iff its
\* exchange_rate is absent or zero, whatever the population; exchange_rate
\* is absent iff the first currency's code is absent or the empty string,
\* or is not a key of the rate mapping.
C8_GdpAndRateAbsence ==
  \A k \in 1..Len(task[1].batch) :
    LET r == task[1].batch[k]
        code == FirstCode(task[1].countries_data[task[1].origin[k]])
    IN /\ GdpAbsentIffNoRate(r)
       /\ (r.exchange_rate = None) <=>
            (code = None \/ Val(code) = ""
             \/ Val(code) \notin DOMAIN task[1].exchange_rates)

\* a record of population 0 with a rate of 2 was reconciled: its
\* estimated_gdp is present
C8_Witness ==
  /\ task[1].batch # <<>>
  /\ task[1].batch[1].population = Some(0)
  /\ task[1].batch[1].exchange_rate = Some(2)
  /\ task[1].batch[1].estimated_gdp # None

(***************************************************************************)
(* GET /countries on its own: a table drawn from the tables below, and     *)
(* one query on it.                                                        *)
(***************************************************************************)
ListNames == <<"a", "b", "c", "d">>
ListPopulations == {1, 2, 3}

\* the row the refresh of one record leaves: with a currency that has a
\* rate (and a region), or without
ListRow(i, population, with_currency) ==
  LET country == IF with_currency
                 THEN [Valid(ListNames[i]) EXCEPT !.population = Some(population)]
                 ELSE [NoCurrency(ListNames[i]) EXCEPT !.population = Some(population)]
  IN RowOf(process_country_data(country, ("X" :> 2), MinMultiplier).value, i, 0)

ListTables ==
  UNION {{[i \in 1..k |-> ListRow(i, p[i], c[i])] :
            p \in [1..k -> ListPopulations], c \in [1..k -> BOOLEAN]} :
          k \in 0..MaxRows}

SortParams ==
  {None, Some(""), Some("gdp_desc"), Some("gdp_asc"), Some("population_desc"),
   Some("population_asc"), Some("name_asc"), Some("name_desc"), Some("gdp")}
RegionParams == {None, Some("R")}
CurrencyParams == {None, Some("x")}

InitList ==
  /\ store \in ListTables
  /\ nextId = Len(store) + 1
  /\ now = 0
  /\ task = [t \in Tasks |-> IdleTask]
  /\ image = None
  /\ resp = NoResp
  /\ upsertLog = [t \in Tasks |-> <<>>]
  /\ live = [n \in LowerNames |-> None]

NextList ==
  \E region \in RegionParams, currency \in CurrencyParams, sort \in SortParams :
    GetCountries(region, currency, sort)

SpecList == InitList /\ [][NextList]_vars

RecognizedSorts ==
  {"gdp_desc", "gdp_asc", "population_desc", "population_asc", "name_asc",
   "name_desc"}

\* the rows without estimated_gdp come after all the rows that have one,
\* and the values present do not increase
GdpDescNullsLast(countries) ==
  \A i, k \in 1..Len(countries) :
    i < k =>
      /\ countries[i].estimated_gdp = None => countries[k].estimated_gdp = None
      /\ (countries[i].estimated_gdp # None /\ countries[k].estimated_gdp # None) =>
           Val(countries[i].estimated_gdp) >= Val(countries[k].estimated_gdp)

Records(countries) == {countries[i] : i \in 1..Len(countries)}

\* C11: get_all_countries with sort "gdp_desc" returns the records with
\* the ones whose estimated_gdp is absent after all the ones whose
\* estimated_gdp is present, the present values in non-increasing order; an
\* unrecognized sort token raises no error and returns the same set of
\* records as the call with no sort.
C11_GdpDescNullsLast ==
  resp.op = "list" =>
    LET query == Val(resp.body).query
        countries == Val(resp.body).countries
        unsorted == get_all_countries(store, query.region, query.currency, None).value
    IN /\ query.sort = Some("gdp_desc") =>
            /\ resp.status = "200"
            /\ GdpDescNullsLast(countries)
            /\ Records(countries) = Records(unsorted)
       /\ (query.sort # None /\ Val(query.sort) \notin RecognizedSorts) =>
            /\ resp.status = "200"
            /\ Records(countries) = Records(unsorted)

(***************************************************************************)
(* A refresh of a long source on its own: both fetches have succeeded, the *)
(* country source returned a list of SliceLimit or SliceLimit + 1 records  *)
(* that all reconcile and all can be stored.                               *)
(***************************************************************************)
LongLists == {Pad(<<NoCurrency("a")>>, n) : n \in {SliceLimit, SliceLimit + 1}}

InitLong ==
  /\ store = <<>>
  /\ nextId = 1
  /\ now = 0
  /\ \E list \in LongLists :
       task = [t \in Tasks |->
                 IF t = 1
                 THEN [IdleTask EXCEPT !.pc = "loop", !.countries_data = list,
                                       !.idx = 1]
                 ELSE IdleTask]
  /\ image = None
  /\ resp = NoResp
  /\ upsertLog = [t \in Tasks |-> <<>>]
  /\ live = [n \in LowerNames |-> None]

NextLong ==
  \/ LoopBody(1)
  \/ LoopEnd(1)
  \/ UpsertQuery(1)
  \/ UpsertCommit(1)
  \/ RefreshDone(1)
  \/ Tick

SpecLong == InitLong /\ [][NextLong]_vars

\* C12: a refresh whose fetches succeed reconciles and upserts every
\* record of the fetched list exactly once, whatever the length of the
\* list, in the order of the list: when it answers, its upsert_country
\* calls are those of the positions 1, 2, ... up to the length of the list,
\* in that order, each one committed.
C12_EveryRecordUpsertedInOrder ==
  [][\A t \in Tasks :
       (Answers(t)' /\ ~resp'.fetch_failed) =>
         /\ Len(upsertLog'[t]) = Len(task[t].countries_data)
         /\ \A k \in 1..Len(upsertLog'[t]) :
              /\ upsertLog'[t][k].index = k
              /\ Succeeded(upsertLog'[t][k].kind)]_vars

====
